---- MODULE Spec2Model ----
(***************************************************************************)
(* Model of csvToChords.py: timestamp resolution (stringToUnixTimestamp),  *)
(* file loading (readDataFile), row mapping and submission (handleFile,    *)
(* sendData) and the run / drain loop (main), together with the pychords   *)
(* delivery queue that main's drain loop polls.                            *)
(*                                                                         *)
(* Times are integers: seconds of wall-clock time counted from 00:00 of    *)
(* day 0, and epoch seconds counted from 00:00 UTC of day 0.               *)
(***************************************************************************)
EXTENDS Integers, Sequences, FiniteSets, TLC

VARIABLES files, test, pc, fi, df, ri, queue, senderStarted, trace,
          polls, lastPoll, exitCode, tsInput, tsResult, tsPc

vars == <<files, test, pc, fi, df, ri, queue, senderStarted, trace,
          polls, lastPoll, exitCode, tsInput, tsResult, tsPc>>

(***************************************************************************)
(* Bounds of the model.                                                    *)
(***************************************************************************)
MaxFiles == 2
MaxRows == 2
MaxDay == 1
max_queue_length == 2
MaxPolls == 3

(***************************************************************************)
(* Time zone.  readDataFile's default tzinfo is ZoneInfo('US/Pacific'):    *)
(* UTC-8h, and UTC-7h from the spring-forward date on.  For a wall time    *)
(* (fold = 0) zoneinfo answers the standard offset up to and including the *)
(* skipped hour 02:00-03:00 of that date and the daylight offset after it. *)
(***************************************************************************)
DstDay == 1
SecsPerDay == 86400

USPacific == [std |-> -28800, dst |-> -25200,
              dstWall |-> DstDay * SecsPerDay + 3 * 3600]

utcoffset(tzinfo, wall) ==
    IF wall < tzinfo.dstWall THEN tzinfo.std ELSE tzinfo.dst

\* datetime.timestamp() of an aware datetime: wall time minus its UTC offset
timestamp(tzinfo, wall) == wall - utcoffset(tzinfo, wall)

(***************************************************************************)
(* Time-column strings, by their shape:                                    *)
(*   iso    "YYYY-MM-DDTHH:MM[+HH:MM]"   tz: carries an offset, off: the   *)
(*          offset in seconds east of UTC (0 when tz is FALSE)             *)
(*   range  "<Weekday>, M/D/Y - h:mm(am|pm) - h:mm(am|pm)"                 *)
(*   bad    any other text                                                 *)
(***************************************************************************)
Hours12 == {12, 1, 2, 3, 11}
Hours24 == {0, 2, 7, 23}
Minutes == {0, 15, 59}
OffsetSecs == {0, 3600, -28800}
Days == 0..MaxDay

IsoStrings ==
    {s \in [kind : {"iso"}, day : Days, hour : Hours24, minute : Minutes,
            tz : BOOLEAN, off : OffsetSecs] : ~s.tz => s.off = 0}

RangeStrings ==
    [kind : {"range"}, day : Days,
     sh : Hours12, sm : Minutes, sp : {"am", "pm"},
     eh : Hours12, em : Minutes, ep : {"am", "pm"}]

BadString == [kind |-> "bad"]

TimeStrings == IsoStrings \cup RangeStrings \cup {BadString}

\* datetime.fromisoformat: fails on anything but an ISO string; the parsed
\* value is a wall time plus the string's own offset, if it has one
fromisoformat(s) ==
    IF s.kind = "iso"
    THEN [ok |-> TRUE, wall |-> s.day * SecsPerDay + s.hour * 3600 + s.minute * 60,
          tz |-> s.tz, off |-> s.off]
    ELSE [ok |-> FALSE, wall |-> 0, tz |-> FALSE, off |-> 0]

\* strptime(..., "%A, %m/%d/%Y %I:%M%p"): 12-hour clock, 12am is hour 0
strptime(day, h, m, p) ==
    day * SecsPerDay + ((h % 12) + (IF p = "pm" THEN 12 ELSE 0)) * 3600 + m * 60

Raised == [raised |-> TRUE, value |-> 0]
Returned(v) == [raised |-> FALSE, value |-> v]

\* split("-") gives three items only for the range shape; an ISO string
\* never reaches this branch and other text fails in strptime
SunpowerSwallow(s, tzinfo) ==
    IF s.kind # "range" THEN Returned(0)
    ELSE LET startdt == strptime(s.day, s.sh, s.sm, s.sp)
             enddt0 == strptime(s.day, s.eh, s.em, s.ep)
             enddt == IF enddt0 < startdt THEN enddt0 + SecsPerDay ELSE enddt0
         IN Returned(timestamp(tzinfo, startdt + ((enddt - startdt) \div 2)))

SunpowerNoWrap(s, tzinfo) ==
    IF s.kind # "range" THEN Raised
    ELSE LET startdt == strptime(s.day, s.sh, s.sm, s.sp)
             enddt == strptime(s.day, s.eh, s.em, s.ep)
         IN Returned(timestamp(tzinfo, startdt + ((enddt - startdt) \div 2)))

Sunpower(s, tzinfo) ==
    IF s.kind # "range" THEN Raised
    ELSE LET startdt == strptime(s.day, s.sh, s.sm, s.sp)
             enddt0 == strptime(s.day, s.eh, s.em, s.ep)
             \* both carry the same tzinfo: compared as wall times
             enddt == IF enddt0 < startdt THEN enddt0 + SecsPerDay ELSE enddt0
         IN Returned(timestamp(tzinfo, startdt + ((enddt - startdt) \div 2)))

\* lines 19-24: dt.replace(tzinfo=tzinfo) discards whatever offset was parsed
Iso(s, tzinfo) ==
    LET dt == fromisoformat(s)
    IN IF dt.ok THEN Returned(timestamp(tzinfo, dt.wall)) ELSE Raised

stringToUnixTimestamp(datetimeString, year, tzinfo) ==
    LET iso == Iso(datetimeString, tzinfo)
    IN IF ~iso.raised THEN iso ELSE Sunpower(datetimeString, tzinfo)

(***************************************************************************)
(* Cells, rows and files.  A cell is a number, the missing value NaN, or   *)
(* text (the time column).  A file on disk either does not exist, or is    *)
(* readable as xlsx, as csv only, or as neither; a readable file has a set *)
(* of columns and a sequence of rows.                                      *)
(***************************************************************************)
Num(n) == [tag |-> "num", n |-> n]
NaN == [tag |-> "nan"]
Str(s) == [tag |-> "str", s |-> s]

\* pandas.notna
notna(cell) == cell.tag # "nan"

\* the configuration: config["time_column_name"], config["variables"],
\* config["instrument_id"]
time_column_name == "Time"
variables == << [column_name |-> "Temp", short_name |-> "temp"],
                [column_name |-> "Hum", short_name |-> "hum"],
                [column_name |-> "Wind", short_name |-> "wind"] >>
instrument_id == 7

Columns == {"Time", "Temp", "Hum", "Extra"}
NoTimeColumns == {"Temp", "Hum"}

NightRange == [kind |-> "range", day |-> 0, sh |-> 11, sm |-> 15, sp |-> "pm",
                 eh |-> 12, em |-> 0, ep |-> "am"]
IsoWithOffset == [kind |-> "iso", day |-> 0, hour |-> 7, minute |-> 0,
                  tz |-> TRUE, off |-> 0]

MkRow(t, temp, hum, extra) ==
    [c \in Columns |-> CASE c = "Time" -> t
                         [] c = "Temp" -> temp
                         [] c = "Hum" -> hum
                         [] OTHER -> extra]

\* rows of the csv files: one with a missing cell, one with a bad time
RowSet == { MkRow(Str(NightRange), Num(21), NaN, Num(5)),
            MkRow(Str(BadString), Num(23), Num(41), Num(6)) }

\* the row of the xlsx file
IsoRow == MkRow(Str(IsoWithOffset), Num(22), Num(40), NaN)

RowSeqs == UNION { [1..n -> RowSet] : n \in 0..MaxRows }

FileSet ==
    { [exists |-> FALSE, format |-> "none", cols |-> {}, rows |-> << >>],
      [exists |-> TRUE, format |-> "none", cols |-> {}, rows |-> << >>],
      [exists |-> TRUE, format |-> "csv", cols |-> NoTimeColumns, rows |-> << >>] }
    \cup [exists : {TRUE}, format : {"csv"}, cols : {Columns}, rows : RowSeqs]
    \cup [exists : {TRUE}, format : {"xlsx"}, cols : {Columns},
          rows : {<<IsoRow>>}]

FileLists == UNION { [1..n -> FileSet] : n \in 1..MaxFiles }

(***************************************************************************)
(* readDataFile: None for a file that cannot be loaded, a raise when a     *)
(* time value resolves in neither encoding, else the dataframe with the    *)
(* added "Unix Timestamp" column.                                          *)
(***************************************************************************)
Put(f, k, v) == [x \in (DOMAIN f) \cup {k} |-> IF x = k THEN v ELSE f[x]]

CellTimestamp(cell) ==
    IF cell.tag = "str" THEN stringToUnixTimestamp(cell.s, 0, USPacific)
    ELSE Raised

readDataFile(file) ==
    IF ~file.exists THEN [res |-> "none"]
    ELSE IF file.format = "none" THEN [res |-> "none"]
    ELSE IF time_column_name \notin file.cols THEN [res |-> "none"]
    ELSE IF \E i \in 1..Len(file.rows) :
                CellTimestamp(file.rows[i][time_column_name]).raised
         THEN [res |-> "raise"]
         ELSE [res |-> "ok",
               rows |-> [i \in 1..Len(file.rows) |->
                          Put(file.rows[i], "Unix Timestamp",
                              Num(CellTimestamp(file.rows[i][time_column_name]).value))]]

(***************************************************************************)
(* handleFile's row loop body: the record built for one row.               *)
(***************************************************************************)
RECURSIVE CollectNoNaCheck(_, _, _)
CollectNoNaCheck(df_row, acc, k) ==
    IF k > Len(variables) THEN acc
    ELSE LET column_name == variables[k].column_name
             short_name == variables[k].short_name
         IN IF column_name \notin DOMAIN df_row
            THEN CollectNoNaCheck(df_row, acc, k + 1)
            ELSE CollectNoNaCheck(df_row, Put(acc, short_name, df_row[column_name]), k + 1)

RECURSIVE Collect(_, _, _)
Collect(df_row, acc, k) ==
    IF k > Len(variables) THEN acc
    ELSE LET column_name == variables[k].column_name
             short_name == variables[k].short_name
         IN IF column_name \notin DOMAIN df_row
            THEN Collect(df_row, acc, k + 1)
            ELSE IF notna(df_row[column_name])
                 THEN Collect(df_row, Put(acc, short_name, df_row[column_name]), k + 1)
                 ELSE Collect(df_row, acc, k + 1)

\* lines 103-119
RowVars(df_row) ==
    Collect(df_row, [x \in {"at"} |-> df_row[time_column_name]], 1)

\* tochords.buildURI(config["chords_host"], chords_record)
buildURI(rowvars) == [inst_id |-> instrument_id, vars |-> rowvars]

\* tochords.submitURI(uri, max_queue_length): the queue is trimmed to the
\* bound, oldest first
submitURI(q, uri) ==
    IF Len(q) >= max_queue_length THEN Append(Tail(q), uri) ELSE Append(q, uri)

Event(op, f, r, uri) == [op |-> op, fi |-> f, ri |-> r, uri |-> uri]

\* sendData, as the events it adds to the trace and what it does to the queue
SendEventsNoPaceInTest(f, r, uri) ==
    IF ~test
    THEN << Event("build", f, r, uri), Event("enqueue", f, r, uri), Event("sleep", f, r, uri) >>
    ELSE << Event("build", f, r, uri) >>

SendEvents(f, r, uri) ==
    IF ~test
    THEN << Event("build", f, r, uri), Event("enqueue", f, r, uri), Event("sleep", f, r, uri) >>
    ELSE << Event("build", f, r, uri), Event("sleep", f, r, uri) >>

SendQueueAlways(q, uri) == submitURI(q, uri)

SendQueue(q, uri) == IF ~test THEN submitURI(q, uri) ELSE q

(***************************************************************************)
(* The run.  pc is main's position:                                        *)
(*   start   before tochords.startSender                                   *)
(*   file    at the top of the loop over files (line 159)                  *)
(*   row     at the top of the loop over df.index (line 101)               *)
(*   drain   in the wait loop (line 164)                                   *)
(*   done    main returned; exit: sys.exit(-1); raised: uncaught exception *)
(***************************************************************************)
Terminal == {"done", "exit", "raised"}

Init ==
    /\ files \in FileLists
    /\ test \in BOOLEAN
    /\ pc = "start"
    /\ fi = 1
    /\ df = << >>
    /\ ri = 1
    /\ queue = << >>
    /\ senderStarted = FALSE
    /\ trace = << >>
    /\ polls = 0
    /\ lastPoll = -1
    /\ exitCode = 0
    /\ tsInput = BadString
    /\ tsResult = Raised
    /\ tsPc = "idle"

tsVars == <<tsInput, tsResult, tsPc>>

\* lines 154-156
StartSender ==
    /\ pc = "start"
    /\ senderStarted' = ~test
    /\ pc' = "file"
    /\ UNCHANGED <<files, test, fi, df, ri, queue, trace, polls, lastPoll, exitCode, tsVars>>

\* what handleFile does with a file that did not load
LoadFailureSkip ==
    /\ fi' = fi + 1
    /\ UNCHANGED <<pc, exitCode>>

LoadFailure ==
    /\ pc' = "exit"
    /\ exitCode' = -1
    /\ UNCHANGED fi

\* lines 159-161, 88-94: the next file is read; past the last file the run
\* goes on to the wait loop
HandleFile ==
    /\ pc = "file"
    /\ IF fi > Len(files)
       THEN /\ pc' = "drain"
            /\ UNCHANGED <<fi, df, ri, exitCode>>
       ELSE LET r == readDataFile(files[fi])
            IN CASE r.res = "none" -> LoadFailure /\ UNCHANGED <<df, ri>>
                 [] r.res = "raise" -> /\ pc' = "raised"
                                       /\ exitCode' = 1
                                       /\ UNCHANGED <<fi, df, ri>>
                 [] OTHER -> /\ df' = r.rows
                             /\ ri' = 1
                             /\ pc' = "row"
                             /\ UNCHANGED <<fi, exitCode>>
    /\ UNCHANGED <<files, test, queue, senderStarted, trace, polls, lastPoll, tsVars>>

\* lines 101-122 and sendData, lines 134-144: one row is mapped, submitted
\* and paced; past the last row handleFile returns
HandleRow ==
    /\ pc = "row"
    /\ IF ri > Len(df)
       THEN /\ fi' = fi + 1
            /\ pc' = "file"
            /\ UNCHANGED <<ri, queue, trace>>
       ELSE /\ ri' = ri + 1
            /\ UNCHANGED <<fi, pc>>
            /\ IF time_column_name \notin DOMAIN df[ri]
               THEN UNCHANGED <<queue, trace>>
               ELSE LET uri == buildURI(RowVars(df[ri]))
                    IN /\ trace' = trace \o SendEvents(fi, ri, uri)
                       /\ queue' = SendQueue(queue, uri)
    /\ UNCHANGED <<files, test, df, senderStarted, polls, lastPoll, exitCode, tsVars>>

DrainExitAtMostOne(num_remaining) == num_remaining <= 1

\* line 168
DrainExit(num_remaining) == num_remaining = 0

\* lines 164-169: one poll of tochords.waiting(); polls counts them, up to
\* MaxPolls
DrainPoll ==
    /\ pc = "drain"
    /\ LET num_remaining == Len(queue)
       IN /\ lastPoll' = num_remaining
          /\ polls' = IF polls < MaxPolls THEN polls + 1 ELSE polls
          /\ pc' = IF DrainExit(num_remaining) THEN "done" ELSE "drain"
    /\ UNCHANGED <<files, test, fi, df, ri, queue, senderStarted, trace, exitCode, tsVars>>

\* the background sender started by tochords.startSender: it takes the
\* oldest queued record and delivers it, while the process lives
Sender ==
    /\ senderStarted
    /\ pc \notin Terminal
    /\ queue # << >>
    /\ queue' = Tail(queue)
    /\ UNCHANGED <<files, test, pc, fi, df, ri, senderStarted, trace, polls, lastPoll,
                   exitCode, tsVars>>

Next == StartSender \/ HandleFile \/ HandleRow \/ DrainPoll \/ Sender

Spec == Init /\ [][Next]_vars

\* the sender thread and the main thread both keep running
FairSpec == Spec /\ WF_vars(Sender) /\ WF_vars(DrainPoll)

(***************************************************************************)
(* stringToUnixTimestamp on its own: any time string is resolved once.     *)
(***************************************************************************)
TsInit ==
    /\ tsInput \in TimeStrings
    /\ tsResult = Raised
    /\ tsPc = "call"
    /\ files = << >>
    /\ test = FALSE
    /\ pc = "done"
    /\ fi = 1
    /\ df = << >>
    /\ ri = 1
    /\ queue = << >>
    /\ senderStarted = FALSE
    /\ trace = << >>
    /\ polls = 0
    /\ lastPoll = -1
    /\ exitCode = 0

TsResolve ==
    /\ tsPc = "call"
    /\ tsResult' = stringToUnixTimestamp(tsInput, 0, USPacific)
    /\ tsPc' = "returned"
    /\ UNCHANGED <<tsInput, files, test, pc, fi, df, ri, queue, senderStarted, trace,
                   polls, lastPoll, exitCode>>

TsNext == TsResolve

TsSpec == TsInit /\ [][TsNext]_vars

(***************************************************************************)
(* Helpers of the properties.                                              *)
(***************************************************************************)
Ops(op) == { i \in 1..Len(trace) : trace[i].op = op }

\* a file loads: it exists, decodes in one of the formats, has the time column
Loads(file) ==
    file.exists /\ file.format \in {"xlsx", "csv"} /\ time_column_name \in file.cols

\* a time cell in neither accepted encoding
Unparseable(cell) == cell.tag # "str" \/ cell.s.kind \notin {"iso", "range"}

HasBadTime(file) ==
    Loads(file) /\ \E i \in 1..Len(file.rows) : Unparseable(file.rows[i][time_column_name])

RECURSIVE RowsBefore(_)
RowsBefore(f) == IF f <= 1 THEN 0 ELSE RowsBefore(f - 1) + Len(files[f - 1].rows)

\* hour of the day named by a 12-hour clock reading
Hour24(h, p) ==
    CASE h = 12 /\ p = "am" -> 0
      [] h = 12 /\ p = "pm" -> 12
      [] p = "am" -> h
      [] OTHER -> h + 12

StartWall(s) == s.day * SecsPerDay + Hour24(s.sh, s.sp) * 3600 + s.sm * 60
EndWall(s) == s.day * SecsPerDay + Hour24(s.eh, s.ep) * 3600 + s.em * 60
IsoWall(s) == s.day * SecsPerDay + s.hour * 3600 + s.minute * 60

(***************************************************************************)
(* Properties.                                                             *)
(***************************************************************************)

\* C1: every record handed to sendData carries, as `at`, the epoch seconds
\* that readDataFile stored in the row's "Unix Timestamp" column.
AtIsResolvedTimestamp ==
    \A i \in Ops("build") :
        trace[i].uri.vars["at"] =
            readDataFile(files[trace[i].fi]).rows[trace[i].ri]["Unix Timestamp"]

\* C2 as stated: when some listed file fails to load, no record is ever
\* submitted, wherever the failing file stands in the list.
NoSubmissionWhenAnyFileFails ==
    (\E j \in 1..Len(files) : ~Loads(files[j])) => trace = << >>

\* C2 amended: nothing of a file that fails to load, or of a file listed
\* after it, is ever submitted; the wait loop is reached only when every file
\* loaded; and sys.exit leaves with a non-zero status at the failing file,
\* after every row of the files before it was submitted.
AbortAtFirstFailingFile ==
    /\ \A i \in 1..Len(trace) : \A j \in 1..trace[i].fi : Loads(files[j])
    /\ pc \in {"drain", "done"} => \A j \in 1..Len(files) : Loads(files[j])
    /\ pc = "exit" => /\ exitCode # 0
                      /\ ~Loads(files[fi])
                      /\ Cardinality(Ops("build")) = RowsBefore(fi)

AbortAfterEarlierFiles ==
    /\ pc = "exit"
    /\ fi = 2
    /\ trace # << >>

\* C3: whenever a run that is not a test run has terminated, by return, by
\* sys.exit or by an uncaught error, the delivery queue is empty.
NoPendingAtTermination ==
    (pc \in Terminal /\ ~test) => queue = << >>

\* C4: the wait loop starts only after every row of every file was submitted,
\* main returns only after a poll that saw zero pending records (so with the
\* queue empty), and with the sender running the wait loop is left eventually.
DrainIsBarrier ==
    /\ [](pc \in {"drain", "done"} =>
            Cardinality(Ops("build")) = RowsBefore(Len(files) + 1))
    /\ [](pc = "done" => polls >= 1 /\ lastPoll = 0 /\ queue = << >>)
    /\ [](pc = "drain" /\ polls >= 1 => lastPoll > 0 /\ ~test)
    /\ (pc = "drain" ~> pc = "done")

DrainWaited ==
    /\ pc = "done"
    /\ ~test
    /\ polls >= 2

\* C5: once every file was handled, the trace is one build / enqueue / sleep
\* triple per row (build / sleep in test mode), files in list order and rows
\* in index order, the enqueued record being the one built.
OneTriplePerRowInOrder ==
    pc \in {"drain", "done"} =>
        LET n == IF test THEN 2 ELSE 3
            ops == IF test THEN <<"build", "sleep">> ELSE <<"build", "enqueue", "sleep">>
        IN /\ Len(trace) = n * RowsBefore(Len(files) + 1)
           /\ \A f \in 1..Len(files) : \A r \in 1..Len(files[f].rows) :
                \A k \in 1..n :
                    LET e == trace[n * (RowsBefore(f) + r - 1) + k]
                    IN /\ e.op = ops[k]
                       /\ e.fi = f
                       /\ e.ri = r
                       /\ e.uri = trace[n * (RowsBefore(f) + r - 1) + 1].uri

TwoIdenticalRowsSubmitted ==
    /\ pc = "done"
    /\ ~test
    /\ Len(files[1].rows) = 2
    /\ files[1].rows[1] = files[1].rows[2]
    /\ Cardinality(Ops("enqueue")) = 2

UnparseableTimeIsFatal ==
    /\ \A i \in 1..Len(trace) : \A j \in 1..trace[i].fi : ~HasBadTime(files[j])
    /\ pc \in {"drain", "done"} => \A j \in 1..Len(files) : ~HasBadTime(files[j])
    /\ pc = "raised" => HasBadTime(files[fi]) /\ exitCode # 0
    /\ (pc = "row" /\ fi <= Len(files)) => ~HasBadTime(files[fi])

BadTimeInSecondRow ==
    /\ pc = "raised"
    /\ Len(files[fi].rows) = 2
    /\ ~Unparseable(files[fi].rows[1][time_column_name])
    /\ Unparseable(files[fi].rows[2][time_column_name])

\* C8: for a range whose end time of day is earlier than its start, the end
\* is moved one day on and the result is the midpoint of start and end,
\* strictly after the start instant and strictly before start + 24h.
RolloverMidpoint ==
    (tsPc = "returned" /\ tsInput.kind = "range" /\ EndWall(tsInput) < StartWall(tsInput)) =>
        LET S == StartWall(tsInput)
            E == EndWall(tsInput) + SecsPerDay
        IN /\ ~tsResult.raised
           /\ tsResult.value = timestamp(USPacific, S + ((E - S) \div 2))
           /\ tsResult.value > timestamp(USPacific, S)
           /\ tsResult.value < timestamp(USPacific, S) + SecsPerDay

RolloverResolved ==
    /\ tsPc = "returned"
    /\ tsInput.kind = "range"
    /\ tsInput.sh = 11 /\ tsInput.sp = "pm"
    /\ tsInput.eh = 12 /\ tsInput.ep = "am"
    /\ ~tsResult.raised

\* C9: an ISO string that carries its own UTC offset resolves to the instant
\* it denotes at that offset; only a zone-less one is read in the configured
\* zone.
IsoKeepsOwnOffset ==
    (tsPc = "returned" /\ tsInput.kind = "iso") =>
        /\ ~tsResult.raised
        /\ tsResult.value = IF tsInput.tz THEN IsoWall(tsInput) - tsInput.off
                            ELSE timestamp(USPacific, IsoWall(tsInput))

\* C10: apart from `at`, a record holds short_name -> cell exactly for the
\* mapped columns present in the row with a cell that is not NaN, the cell
\* copied as it is.
StrictProjection ==
    \A i \in Ops("build") :
        LET row == files[trace[i].fi].rows[trace[i].ri]
            rec == trace[i].uri.vars
            present == { k \in 1..Len(variables) :
                            /\ variables[k].column_name \in DOMAIN row
                            /\ row[variables[k].column_name] # NaN }
        IN /\ "at" \in DOMAIN rec
           /\ (DOMAIN rec) \ {"at"} = { variables[k].short_name : k \in present }
           /\ \A k \in present : rec[variables[k].short_name] = row[variables[k].column_name]

RecordOmitsMissingCell ==
    \E i \in Ops("build") :
        /\ files[trace[i].fi].rows[trace[i].ri]["Hum"] = NaN
        /\ "hum" \notin DOMAIN trace[i].uri.vars
        /\ "temp" \in DOMAIN trace[i].uri.vars

====
